---- MODULE Spec2Model ----
(***************************************************************************)
(* A model of the CHIP-8 interpreter of src/chip.c: the global `chip8`     *)
(* struct, the host key vector `keys`, the loader chip8_init, one          *)
(* instruction cycle chip8_execute_instruction (with chip8_sprite_draw),   *)
(* and the host events of main's loop.                                     *)
(*                                                                         *)
(* Widths are kept: pc and I are uint16 (mod 65536), v[], delay, sound and *)
(* sp are uint8 (mod 256).  A display cell is a uint32; it is held here as *)
(* the same 32-bit pattern read as a two's-complement integer (what the    *)
(* code's `int pixel` holds), so cell = 0 means the same in both readings. *)
(*                                                                         *)
(* An access outside an array (ram, stack, keys, display) is undefined     *)
(* behaviour in C.  The model does not pick an outcome for it: the step    *)
(* ends in status "undefined" with `fault` naming the access, and nothing  *)
(* is said about what follows.                                             *)
(***************************************************************************)
EXTENDS Integers, Sequences, FiniteSets, TLC

\* ------------------------------------------------------------ constants
CHIP8_RAM_CAPACITY == 4096
CHIP8_RAM_ENTRYPOINT == 512
CHIP8_REGISTER_COUNT == 16
CHIP8_STACK_CAPACITY == 16
CHIP8_DISPLAY_WIDTH == 64
CHIP8_DISPLAY_HEIGHT == 32
\* sizeof chip8_numbers: the 0x50 bytes of the font table.
FontSize == 80
\* The number of entries of `keys`.
KeyCount == 16

\* ---------------------------------------------------------------- bounds
\* The read collaborator may deliver an image in two chunks, the first of
\* 1..MaxSplit bytes, or stop after 1..MaxSplit bytes.
MaxSplit == 2
\* The sprite programs place their sprite at NumCoords of the coordinates.
NumCoords == 2

\* ------------------------------------------------------------ arithmetic
Pow2(n) == 2 ^ n
Add16(a, b) == (a + b) % 65536
Add8(a, b) == (a + b) % 256
\* Bit b (0 = least significant) of the non-negative integer a.
Bit(a, b) == (a \div Pow2(b)) % 2

\* a ^ b on non-negative integers, bit by bit.
RECURSIVE XorNat(_, _)
XorNat(a, b) ==
  IF a = 0 THEN b
  ELSE IF b = 0 THEN a
  ELSE (((a % 2) + (b % 2)) % 2) + 2 * XorNat(a \div 2, b \div 2)

\* a ^ b on two's-complement integers, b >= 0 (the sprite byte): for a < 0,
\* a = ~(-a-1) and ~m ^ b = ~(m ^ b).
Xor32(a, b) == IF a >= 0 THEN XorNat(a, b) ELSE -XorNat(-a - 1, b) - 1

\* (unsigned) p * 0xffffffff mod 2^32, which is -p mod 2^32; as a
\* two's-complement value that is -p, and INT_MIN stays INT_MIN.
Mul32Ones(p) == IF p = -2147483647 - 1 THEN p ELSE -p

\* ---------------------------------------------------------------- opcodes
Op(a, b, c, d) == a * 4096 + b * 256 + c * 16 + d
Family(op) == op \div 4096
X(op) == (op \div 256) % 16
Y(op) == (op \div 16) % 16
N(op) == op % 16
NN(op) == op % 256
NNN(op) == op % 4096

\* ------------------------------------------------------------ font table
chip8_numbers ==
  << 240, 144, 144, 144, 240,    \* F0 90 90 90 F0
      32,  96,  32,  32, 112,    \* 20 60 20 20 70
     240,  16, 240, 128, 240,    \* F0 10 F0 80 F0
     240,  16, 240,  16, 240,    \* F0 10 F0 10 F0
     144, 144, 240,  16,  16,    \* 90 90 F0 10 10
     240, 128, 240,  16, 240,    \* F0 80 F0 10 F0
     240, 128, 240, 144, 240,    \* F0 80 F0 90 F0
     240,  16,  32,  64,  64,    \* F0 10 20 40 40
     240, 144, 240, 144, 240,    \* F0 90 F0 90 F0
     240, 144, 240,  16, 240,    \* F0 90 F0 10 F0
     240, 144, 240, 144, 144,    \* F0 90 F0 90 90
     224, 144, 224, 144, 224,    \* E0 90 E0 90 E0
     240, 128, 128, 128, 240,    \* F0 80 80 80 F0
     224, 144, 144, 144, 224,    \* E0 90 90 90 E0
     240, 128, 240, 128, 240,    \* F0 80 F0 80 F0
     240, 128, 240, 128, 128 >>  \* F0 80 F0 80 80

\* ------------------------------------------------------------------ state
VARIABLES
  chip8,    \* the global struct: pc, ram, v, delay, sound, I, sp, stack, display
  keys,     \* static int keys[0x10]
  status,   \* "boot" | "running" | "exit" | "undefined"
  fault,    \* why the run ended, "none" while it has not
  rom,      \* the bytes of the file named on the command line (<<>> before it is opened)
  lastOp,   \* history: the opcode the latest instruction cycle fetched, -1 if none
  calls     \* history: the calls not yet returned from, [site, sp] each

vars == <<chip8, keys, status, fault, rom, lastOp, calls>>

Addrs == 0 .. CHIP8_RAM_CAPACITY - 1
Rows == 0 .. CHIP8_DISPLAY_HEIGHT - 1
Cols == 0 .. CHIP8_DISPLAY_WIDTH - 1
Regs == 0 .. CHIP8_REGISTER_COUNT - 1
Slots == 0 .. CHIP8_STACK_CAPACITY - 1
KeyIdx == 0 .. KeyCount - 1

EmptyDisplay == [r \in Rows |-> [c \in Cols |-> 0]]

\* The struct as static storage and as memset leaves it: every byte zero.
ZeroState ==
  [ pc |-> 0,
    ram |-> [a \in Addrs |-> 0],
    v |-> [r \in Regs |-> 0],
    delay |-> 0,
    sound |-> 0,
    I |-> 0,
    sp |-> 0,
    stack |-> [s \in Slots |-> 0],
    display |-> EmptyDisplay ]

Init ==
  /\ chip8 = ZeroState
  /\ keys = [k \in KeyIdx |-> 0]
  /\ status = "boot"
  /\ fault = "none"
  /\ rom = <<>>
  /\ lastOp = -1
  /\ calls = <<>>

\* ----------------------------------------------------------------- loader
\* What the fread loop's calls return, in order: positive byte counts, the
\* loop ending at the first call that returns 0.  A call returns fewer bytes
\* than it was asked for only at end of file or on a read error; the counts
\* add up to the file's size unless the reading stopped early.
Deliveries(fsize) ==
  IF fsize = 0 THEN {<<>>}
  ELSE {<<fsize>>, <<>>}
       \cup {<<k, fsize - k>> : k \in {j \in 1 .. MaxSplit : j < fsize}}
       \cup {<<k>> : k \in {j \in 1 .. MaxSplit : j < fsize}}

RECURSIVE SumSeq(_)
SumSeq(s) == IF s = <<>> THEN 0 ELSE Head(s) + SumSeq(Tail(s))

\* chip8_init up to the size check: memset, pc = entry point, the font copy.
InitState ==
  [ZeroState EXCEPT
     !.pc = CHIP8_RAM_ENTRYPOINT,
     !.ram = [a \in Addrs |-> IF a < FontSize THEN chip8_numbers[a + 1] ELSE 0]]

\* A faulty TooLarge: the comparison is >= where the code has >.
TooLargeOffByOne(fsize) == fsize >= CHIP8_RAM_CAPACITY - CHIP8_RAM_ENTRYPOINT

\* The size check: the file does not fit behind the entry point.
TooLarge(fsize) == fsize > CHIP8_RAM_CAPACITY - CHIP8_RAM_ENTRYPOINT

\* A faulty TooLargeExitState: the image is copied (as much of it as ram
\* holds) before its size is checked.
TooLargeExitStateCopied(image) ==
  [InitState EXCEPT
     !.ram = [a \in Addrs |-> IF a >= CHIP8_RAM_ENTRYPOINT
                                THEN image[a - CHIP8_RAM_ENTRYPOINT + 1]
                                ELSE InitState.ram[a]]]

\* The struct when chip8_init exits on the size check.
TooLargeExitState(image) == InitState

\* One fread(chip8.ram + chip8.pc, 1, fsize, fd) that returns n bytes, the file
\* position being pos: the bytes land at ram[pc ..], whatever was read before.
FreadInto(ram, pc, image, pos, n) ==
  [a \in Addrs |-> IF a >= pc /\ a < pc + n THEN image[pos + (a - pc) + 1] ELSE ram[a]]

\* The while loop over fread: each chunk is written, ntotal adds up.
RECURSIVE ReadLoop(_, _, _, _, _)
ReadLoop(ram, pc, image, pos, chunks) ==
  IF chunks = <<>> THEN ram
  ELSE ReadLoop(FreadInto(ram, pc, image, pos, Head(chunks)), pc, image,
                pos + Head(chunks), Tail(chunks))

\* chip8_init(filename) on a file that opens, holding `image`, read as `chunks`;
\* and main's exit when it fails.
chip8_init(image, chunks) ==
  LET fsize == Len(image)
      ntotal == SumSeq(chunks)
      read == [InitState EXCEPT
                 !.ram = ReadLoop(InitState.ram, InitState.pc, image, 0, chunks)]
  IN  IF TooLarge(fsize)
        THEN [vm |-> TooLargeExitState(image), status |-> "exit", fault |-> "ImageTooLarge"]
      ELSE IF ntotal # fsize
        THEN [vm |-> read, status |-> "exit", fault |-> "ShortRead"]
      ELSE [vm |-> read, status |-> "running", fault |-> "none"]

\* ------------------------------------------------------ instruction cycle
\* The outcomes of one cycle: it returns, it exits the process
\* (unimplemented_instruction), or it runs into undefined behaviour.
Ok(vm) == [vm |-> vm, status |-> "running", fault |-> "none"]
Exit(vm) == [vm |-> vm, status |-> "exit", fault |-> "UnimplementedOpcode"]
Undefined(vm, what) == [vm |-> vm, status |-> "undefined", fault |-> what]

\* chip8_current_opcode reads ram[pc] and ram[pc + 1] with no check.
FetchInBounds(c) == c.pc + 1 < CHIP8_RAM_CAPACITY
chip8_current_opcode(c) == (c.ram[c.pc] * 256 + c.ram[c.pc + 1]) % 65536

\* A faulty pc += n: one byte short.
AdvanceOneShort(c, n) == [c EXCEPT !.pc = Add16(c.pc, n - 1)]
Advance(c, n) == [c EXCEPT !.pc = Add16(c.pc, n)]
Skip(c, cond) == IF cond THEN Advance(c, 4) ELSE Advance(c, 2)

\* 00E0
ExecClear(c) == Ok(Advance([c EXCEPT !.display = EmptyDisplay], 2))

\* A faulty ExecReturn: the pc += 2 after the pop is missing.
ExecReturnNoAdvance(c) ==
  LET sp == (c.sp - 1) % 256
  IN  IF sp < CHIP8_STACK_CAPACITY
        THEN Ok([c EXCEPT !.sp = sp, !.pc = c.stack[sp]])
        ELSE Undefined([c EXCEPT !.sp = sp], "StackReadOutOfBounds")

\* 00EE: pc = stack[--sp]; pc += 2
ExecReturn(c) ==
  LET sp == (c.sp - 1) % 256
  IN  IF sp < CHIP8_STACK_CAPACITY
        THEN Ok([c EXCEPT !.sp = sp, !.pc = Add16(c.stack[sp], 2)])
        ELSE Undefined([c EXCEPT !.sp = sp], "StackReadOutOfBounds")

\* 1nnn
ExecJump(c, op) == Ok([c EXCEPT !.pc = NNN(op)])

\* 2nnn: stack[sp++] = pc; pc = nnn
ExecCall(c, op) ==
  IF c.sp < CHIP8_STACK_CAPACITY
    THEN Ok([c EXCEPT !.stack[c.sp] = c.pc, !.sp = Add8(c.sp, 1), !.pc = NNN(op)])
    ELSE Undefined([c EXCEPT !.sp = Add8(c.sp, 1)], "StackWriteOutOfBounds")

\* 3xnn, 4xnn, 9xy?
ExecSkipEq(c, op) == Ok(Skip(c, c.v[X(op)] = NN(op)))
ExecSkipNe(c, op) == Ok(Skip(c, c.v[X(op)] # NN(op)))
ExecSkipRegNe(c, op) == Ok(Skip(c, c.v[X(op)] # c.v[Y(op)]))

\* 6xnn, 7xnn, 8xy0, Annn, Cxnn
ExecLoad(c, op) == Ok(Advance([c EXCEPT !.v[X(op)] = NN(op)], 2))
\* A faulty 7xnn: the carry of the addition is put into v[0xf].
ExecAddCarry(c, op) ==
  Ok(Advance([c EXCEPT !.v[X(op)] = Add8(c.v[X(op)], NN(op)),
                       !.v[15] = IF c.v[X(op)] + NN(op) > 255 THEN 1 ELSE 0], 2))
ExecAdd(c, op) == Ok(Advance([c EXCEPT !.v[X(op)] = Add8(c.v[X(op)], NN(op))], 2))
ExecMove(c, op) == Ok(Advance([c EXCEPT !.v[X(op)] = c.v[Y(op)]], 2))
ExecIndex(c, op) == Ok(Advance([c EXCEPT !.I = NNN(op)], 2))
\* (random() % 0x100) & nn, rnd being what random() % 0x100 gave
AndByte(a, b) == LET F[i \in 0 .. 8] == IF i = 8 THEN 0
                                        ELSE Bit(a, i) * Bit(b, i) * Pow2(i) + F[i + 1]
                 IN  F[0]
ExecRandom(c, op, rnd) == Ok(Advance([c EXCEPT !.v[X(op)] = AndByte(rnd, NN(op))], 2))

\* ---------------------------------------------------------- sprite draw
\* The inner loop of chip8_sprite_draw over j, the columns of one row: d is
\* [display, vf, fault], fault "none" until an access leaves the display.
RECURSIVE DrawCols(_, _, _, _, _)
DrawCols(d, cell, x, yi, j) ==
  IF j = 8 \/ d.fault # "none" THEN d
  ELSE IF Bit(cell, 7 - j) # 0
    THEN IF yi >= CHIP8_DISPLAY_HEIGHT \/ x + j >= CHIP8_DISPLAY_WIDTH
           THEN [d EXCEPT !.fault = "DisplayOutOfBounds"]
           ELSE LET pixel == d.display[yi][x + j]
                IN  DrawCols([display |-> [d.display EXCEPT
                                             ![yi][x + j] = Mul32Ones(Xor32(pixel, cell))],
                              vf |-> IF pixel # 0 THEN 1 ELSE d.vf,
                              fault |-> "none"],
                             cell, x, yi, j + 1)
  ELSE DrawCols(d, cell, x, yi, j + 1)

\* The outer loop over i, the rows: cell = ram[I + i].
RECURSIVE DrawRows(_, _, _, _, _, _, _)
DrawRows(d, ram, I, x, y, n, i) ==
  IF i = n \/ d.fault # "none" THEN d
  ELSE IF I + i >= CHIP8_RAM_CAPACITY THEN [d EXCEPT !.fault = "RamReadOutOfBounds"]
  ELSE DrawRows(DrawCols(d, ram[I + i], x, y + i, 0), ram, I, x, y, n, i + 1)

\* A faulty chip8_sprite_draw: v[0xf] is not cleared before the loops.
chip8_sprite_draw_keeps_flag(c, x, y, n) ==
  LET d == DrawRows([display |-> c.display, vf |-> c.v[15], fault |-> "none"],
                    c.ram, c.I, x, y, n, 0)
      drawn == [c EXCEPT !.v[15] = d.vf, !.display = d.display]
  IN  IF d.fault = "none" THEN Ok(drawn) ELSE Undefined(drawn, d.fault)

\* chip8_sprite_draw(x, y, n): v[0xf] = 0, then the loops.
chip8_sprite_draw(c, x, y, n) ==
  LET d == DrawRows([display |-> c.display, vf |-> 0, fault |-> "none"],
                    c.ram, c.I, x, y, n, 0)
      drawn == [c EXCEPT !.v[15] = d.vf, !.display = d.display]
  IN  IF d.fault = "none" THEN Ok(drawn) ELSE Undefined(drawn, d.fault)

\* Dxyn
ExecDraw(c, op) ==
  LET r == chip8_sprite_draw(c, c.v[X(op)], c.v[Y(op)], N(op))
  IN  IF r.status = "running" THEN Ok(Advance(r.vm, 2)) ELSE r

\* ----------------------------------------------------------- keys, timers
\* Ex9E / ExA1: keys[v[x]] is read with no check of v[x].
ExecSkipKey(c, op, k) ==
  IF c.v[X(op)] \in KeyIdx THEN Ok(Skip(c, k[c.v[X(op)]] = 1))
  ELSE Undefined(c, "KeysReadOutOfBounds")
ExecSkipNoKey(c, op, k) ==
  IF c.v[X(op)] \in KeyIdx THEN Ok(Skip(c, k[c.v[X(op)]] = 0))
  ELSE Undefined(c, "KeysReadOutOfBounds")

\* Fx0A: the first i in 0..15 with keys[i] set goes to v[x] and pc advances;
\* with no key down nothing changes.
\* A faulty ExecKeyWait: pc advances whether or not a key is down.
ExecKeyWaitNoBlock(c, op, k) ==
  IF \E i \in KeyIdx : k[i] # 0
    THEN Ok(Advance([c EXCEPT !.v[X(op)] =
                       CHOOSE i \in KeyIdx : k[i] # 0 /\ \A j \in 0 .. i - 1 : k[j] = 0], 2))
    ELSE Ok(Advance(c, 2))

FirstKey(k) == CHOOSE i \in KeyIdx : k[i] # 0 /\ \A j \in 0 .. i - 1 : k[j] = 0
ExecKeyWait(c, op, k) ==
  IF \E i \in KeyIdx : k[i] # 0
    THEN Ok(Advance([c EXCEPT !.v[X(op)] = FirstKey(k)], 2))
    ELSE Ok(c)

\* A faulty ExecFont: the glyphs are taken to be 4 bytes apart.
ExecFontStride4(c, op) == Ok(Advance([c EXCEPT !.I = (c.v[X(op)] * 4) % 65536], 2))

\* Fx07, Fx15, Fx1E, Fx29
ExecGetDelay(c, op) == Ok(Advance([c EXCEPT !.v[X(op)] = c.delay], 2))
ExecSetDelay(c, op) == Ok(Advance([c EXCEPT !.delay = c.v[X(op)]], 2))
ExecAddIndex(c, op) == Ok(Advance([c EXCEPT !.I = Add16(c.I, c.v[X(op)])], 2))
ExecFont(c, op) == Ok(Advance([c EXCEPT !.I = (c.v[X(op)] * 5) % 65536], 2))

\* Fx33: ram[I], ram[I + 1], ram[I + 2] = the decimal digits of v[x]
ExecBcd(c, op) ==
  LET vx == c.v[X(op)]
  IN  IF c.I + 2 < CHIP8_RAM_CAPACITY
        THEN Ok(Advance([c EXCEPT !.ram = [c.ram EXCEPT ![c.I] = vx \div 100,
                                                       ![c.I + 1] = (vx \div 10) % 10,
                                                       ![c.I + 2] = vx % 10]], 2))
        ELSE Undefined(c, "RamWriteOutOfBounds")

\* A faulty Fx55: I is left as it was.
ExecStoreKeepsIndex(c, op) ==
  IF c.I + X(op) < CHIP8_RAM_CAPACITY
    THEN Ok(Advance([c EXCEPT
                       !.ram = [a \in Addrs |-> IF a >= c.I /\ a <= c.I + X(op)
                                                  THEN c.v[a - c.I] ELSE c.ram[a]]], 2))
    ELSE Undefined(c, "RamWriteOutOfBounds")

\* Fx55: ram[I + i] = v[i] for i <= x; I += x + 1
ExecStore(c, op) ==
  IF c.I + X(op) < CHIP8_RAM_CAPACITY
    THEN Ok(Advance([c EXCEPT
                       !.ram = [a \in Addrs |-> IF a >= c.I /\ a <= c.I + X(op)
                                                  THEN c.v[a - c.I] ELSE c.ram[a]],
                       !.I = Add16(c.I, X(op) + 1)], 2))
    ELSE Undefined(c, "RamWriteOutOfBounds")

\* Fx65: v[i] = ram[I + i] for i <= x; I += x + 1
ExecFill(c, op) ==
  IF c.I + X(op) < CHIP8_RAM_CAPACITY
    THEN Ok(Advance([c EXCEPT
                       !.v = [r \in Regs |-> IF r <= X(op) THEN c.ram[c.I + r] ELSE c.v[r]],
                       !.I = Add16(c.I, X(op) + 1)], 2))
    ELSE Undefined(c, "RamReadOutOfBounds")

\* -------------------------------------------------------------- dispatch
\* The switch of chip8_execute_instruction on the opcode it fetched.  A case
\* with no matching label falls out of the switch: nothing changes, pc stays.
Dispatch(c, op, k, rnd) ==
  CASE Family(op) = 0 ->
         (CASE NN(op) = 224 -> ExecClear(c)
            [] NN(op) = 238 -> ExecReturn(c)
            [] OTHER -> Ok(c))
    [] Family(op) = 1 -> ExecJump(c, op)
    [] Family(op) = 2 -> ExecCall(c, op)
    [] Family(op) = 3 -> ExecSkipEq(c, op)
    [] Family(op) = 4 -> ExecSkipNe(c, op)
    [] Family(op) = 5 -> Exit(c)
    [] Family(op) = 6 -> ExecLoad(c, op)
    [] Family(op) = 7 -> ExecAdd(c, op)
    [] Family(op) = 8 ->
         (CASE N(op) = 0 -> ExecMove(c, op)
            [] N(op) \in (1 .. 7) \cup {14} -> Exit(c)
            [] OTHER -> Ok(c))
    [] Family(op) = 9 -> ExecSkipRegNe(c, op)
    [] Family(op) = 10 -> ExecIndex(c, op)
    [] Family(op) = 11 -> Exit(c)
    [] Family(op) = 12 -> ExecRandom(c, op, rnd)
    [] Family(op) = 13 -> ExecDraw(c, op)
    [] Family(op) = 14 ->
         (CASE NN(op) = 158 -> ExecSkipKey(c, op, k)
            [] NN(op) = 161 -> ExecSkipNoKey(c, op, k)
            [] OTHER -> Ok(c))
    [] OTHER ->
         (CASE NN(op) = 7 -> ExecGetDelay(c, op)
            [] NN(op) = 10 -> ExecKeyWait(c, op, k)
            [] NN(op) = 21 -> ExecSetDelay(c, op)
            [] NN(op) = 24 -> Exit(c)
            [] NN(op) = 30 -> ExecAddIndex(c, op)
            [] NN(op) = 41 -> ExecFont(c, op)
            [] NN(op) = 51 -> ExecBcd(c, op)
            [] NN(op) = 85 -> ExecStore(c, op)
            [] NN(op) = 101 -> ExecFill(c, op)
            [] OTHER -> Ok(c))

\* chip8_execute_instruction: fetch, then the switch.  `op` is the opcode
\* fetched, -1 when the fetch itself left ram.
chip8_execute_instruction(c, k, rnd) ==
  IF FetchInBounds(c)
    THEN [op |-> chip8_current_opcode(c)] @@ Dispatch(c, chip8_current_opcode(c), k, rnd)
    ELSE [op |-> -1] @@ Undefined(c, "FetchOutOfBounds")

\* ------------------------------------------------------------ host events
\* The keysyms 0..9, a..f of main's two switches, as the digit each names.
\* SDLK_b is wired to keys[0xd] in both switches.
KeyOfSym(sym) == IF sym = 11 THEN 13 ELSE sym

\* The host keys the model presses and releases.
HostKeys == {5, 11, 13}

\* What random() % 0x100 may give.
RandomBytes == {0, 90, 255}

\* ----------------------------------------------------------- the images
Ins(op) == <<op \div 256, op % 256>>
RECURSIVE Prog(_)
Prog(ops) == IF ops = <<>> THEN <<>> ELSE Ins(Head(ops)) \o Prog(Tail(ops))

\* Nested calls: 0x200 calls 0x20A, which calls the leaf at 0x208; twice.
ProgCall ==
  Prog(<< Op(2, 2, 0, 10), Op(6, 1, 0, 1), Op(2, 2, 0, 10), Op(1, 2, 0, 6),
          Op(0, 0, 14, 14), Op(2, 2, 0, 8), Op(0, 0, 14, 14) >>)
\* A call of itself, without end; and a return with nothing to return to.
ProgRecurse == Prog(<< Op(2, 2, 0, 0) >>)
ProgReturn == Prog(<< Op(0, 0, 14, 14) >>)
\* A routine that counts in v0 and calls itself until v0 = 17: 16 calls
\* deep, every stack slot in use, then all the returns and one more.
ProgDeep ==
  Prog(<< Op(7, 0, 0, 1), Op(3, 0, 1, 1), Op(2, 2, 0, 0), Op(0, 0, 14, 14) >>)

\* Where the sprite programs draw: the corners of the in-bounds range of an
\* 8x5 sprite first, then places where it leaves the display.
Coords == << <<0, 0>>, <<56, 27>>, <<10, 5>>, <<60, 3>>, <<3, 30>> >>
CoordsUsed == {Coords[i] : i \in 1 .. (IF NumCoords < Len(Coords) THEN NumCoords ELSE Len(Coords))}

\* v0 = x, v1 = y, v2 = g; I = glyph g; draw it twice; stop.
ProgGlyph(g, xy) ==
  Prog(<< Op(6, 0, 0, 0) + xy[1], Op(6, 1, 0, 0) + xy[2], Op(6, 2, 0, 0) + g,
          Op(15, 2, 2, 9), Op(13, 0, 1, 5), Op(13, 0, 1, 5), Op(1, 2, 0, 12) >>)

\* A two-row sprite FF 81 kept in the image at 0x208, drawn twice at (0, 0).
ProgSprite ==
  Prog(<< Op(10, 2, 0, 8), Op(13, 0, 1, 2), Op(13, 0, 1, 2), Op(1, 2, 0, 6),
          255 * 256 + 129 >>)

\* Wait for a key into v3, keep it in v4, wait again.
ProgKey == Prog(<< Op(15, 3, 0, 10), Op(8, 4, 3, 0), Op(1, 2, 0, 0) >>)

\* One instruction each: opcodes with no case in the switch, and opcodes
\* whose case calls unimplemented_instruction.
LoneOpcodes ==
  { Op(0, 1, 2, 3), Op(8, 1, 2, 8), Op(14, 1, 0, 0), Op(15, 1, 0, 0),
    Op(5, 1, 2, 0), Op(11, 3, 0, 0), Op(8, 1, 2, 4), Op(15, 1, 1, 8) }

\* Glyph 0 (index = 0 after the load) drawn at (0, 0), at (2, 0), where its
\* columns 2 and 3 meet lit cells, and at (8, 0), where nothing is lit.
ProgCollide ==
  Prog(<< Op(13, 0, 1, 5), Op(6, 0, 0, 2), Op(13, 0, 1, 5),
          Op(6, 0, 0, 8), Op(13, 0, 1, 5), Op(1, 2, 0, 10) >>)

\* V3 = 0xFF, then 7301 (an addition that overflows), VF = 1, 7310, and two
\* additions to VF itself.
ProgAdd ==
  Prog(<< Op(6, 3, 15, 15), Op(7, 3, 0, 1), Op(6, 15, 0, 1), Op(7, 3, 1, 0),
          Op(7, 15, 15, 15), Op(7, 15, 0, 2), Op(1, 2, 0, 12) >>)

\* V0 = 0x11 and V1 = 0x22 stored at 0x300 by F155, both registers zeroed,
\* and the two bytes loaded back by F165 from 0x300.
ProgStore ==
  Prog(<< Op(6, 0, 1, 1), Op(6, 1, 2, 2), Op(10, 3, 0, 0), Op(15, 1, 5, 5),
          Op(6, 0, 0, 0), Op(6, 1, 0, 0), Op(10, 3, 0, 0), Op(15, 1, 6, 5),
          Op(1, 2, 1, 0) >>)

\* Glyph 0 drawn at (60, 3), where its columns 0 .. 3 are the last four of
\* the display, and glyph 1 there, whose row 0x70 reaches column 65; glyph 0
\* drawn at (3, 30), where its rows 2 .. 4 are below the display; and a draw
\* at (255, 255).
ProgsOffGrid ==
  { ProgGlyph(0, <<60, 3>>), ProgGlyph(1, <<60, 3>>), ProgGlyph(0, <<3, 30>>),
    ProgGlyph(0, <<255, 255>>) }

\* index = 0xFFF, raised by FF1E with VF = 0xFF to 0x10FE, then one of the
\* instructions that work on memory at index: Fx33, Fx55, Fx65, Dxyn.  The
\* last image uses them at 0xFFF itself: F033 writes 0xFFF .. 0x1001.
ProgsIndex ==
  { Prog(<< Op(6, 15, 15, 15), Op(10, 15, 15, 15), Op(15, 15, 1, 14), op >>) :
      op \in {Op(15, 0, 3, 3), Op(15, 0, 5, 5), Op(15, 0, 6, 5), Op(13, 0, 0, 1)} }
  \cup { Prog(<< Op(10, 15, 15, 15), Op(15, 0, 5, 5), Op(15, 0, 5, 5) >>),
          Prog(<< Op(10, 15, 15, 15), Op(15, 0, 3, 3) >>) }

\* 1203, a jump into the middle of the image: the bytes 61 07 at 0x203 are
\* run as 6107, and pc goes on to 0x205.
ProgOddJump == << 18, 3, 96, 97, 7 >>

\* The delay timer set to d by F015, then polled: F107 reads it into V1,
\* 3100 leaves the loop when V1 = 0, 1204 goes back to the F107.
ProgTimer(d) ==
  Prog(<< Op(6, 0, 0, 0) + d, Op(15, 0, 1, 5), Op(15, 1, 0, 7), Op(3, 1, 0, 0),
          Op(1, 2, 0, 4), Op(1, 2, 0, 10) >>)
TimerImages == {ProgTimer(d) : d \in {0, 1, 5, 255}}

\* A jump to the last byte of ram.
ProgJumpLast == Prog(<< Op(1, 15, 15, 15) >>)

\* An image of n bytes: a jump to 0xFFE, the last instruction slot of ram,
\* then 1200 (a jump to the entry point) throughout, and 6000 from the
\* slot that lands at 0xFFE on.
ImageOfLen(n) ==
  [i \in 1 .. n |->
     IF i = 1 THEN 31 ELSE IF i = 2 THEN 254
     ELSE IF i % 2 = 0 THEN 0
     ELSE IF i >= CHIP8_RAM_CAPACITY - CHIP8_RAM_ENTRYPOINT - 1 THEN 96 ELSE 18]
FullSize == CHIP8_RAM_CAPACITY - CHIP8_RAM_ENTRYPOINT

Images ==
  {ProgCall, ProgRecurse, ProgReturn, ProgDeep, ProgSprite, ProgKey, ProgJumpLast, <<>>,
   ProgCollide, ProgAdd, ProgStore, ProgOddJump, ProgTimer(5)}
  \cup {ProgGlyph(g, xy) : g \in 0 .. 15, xy \in CoordsUsed}
  \cup {Prog(<<op>>) : op \in LoneOpcodes}
  \cup ProgsOffGrid
  \cup ProgsIndex
  \cup {ImageOfLen(n) : n \in {FullSize - 2, FullSize, FullSize + 1, FullSize + 2}}

\* ----------------------------------------------------------------- actions
\* main: chip8_init on a file that cannot be opened returns -1 and main exits.
LoadOpenFailed ==
  /\ status = "boot"
  /\ status' = "exit"
  /\ fault' = "OpenFailed"
  /\ UNCHANGED <<chip8, keys, rom, lastOp, calls>>

\* main: chip8_init on a file that opens.
Load ==
  /\ status = "boot"
  /\ \E image \in Images : \E chunks \in Deliveries(Len(image)) :
       LET r == chip8_init(image, chunks)
       IN  /\ chip8' = r.vm
           /\ status' = r.status
           /\ fault' = r.fault
           /\ rom' = image
  /\ UNCHANGED <<keys, lastOp, calls>>

\* main's loop: SDL_KEYDOWN and SDL_KEYUP events, SDL_QUIT.
KeyDown ==
  /\ status = "running"
  /\ \E sym \in HostKeys : keys' = [keys EXCEPT ![KeyOfSym(sym)] = 1]
  /\ UNCHANGED <<chip8, status, fault, rom, lastOp, calls>>

KeyUp ==
  /\ status = "running"
  /\ \E sym \in HostKeys : keys' = [keys EXCEPT ![KeyOfSym(sym)] = 0]
  /\ UNCHANGED <<chip8, status, fault, rom, lastOp, calls>>

Quit ==
  /\ status = "running"
  /\ status' = "exit"
  /\ fault' = "Quit"
  /\ UNCHANGED <<chip8, keys, rom, lastOp, calls>>

\* The calls not yet returned from, after a cycle that fetched op in c.
CallsAfter(cs, c, r) ==
  IF r.status # "running" \/ r.op < 0 THEN cs
  ELSE IF Family(r.op) = 2 THEN Append(cs, [site |-> c.pc, sp |-> c.sp])
  ELSE IF Family(r.op) = 0 /\ NN(r.op) = 238 /\ cs # <<>> THEN SubSeq(cs, 1, Len(cs) - 1)
  ELSE cs

\* main's loop: one call of chip8_execute_instruction.
Step ==
  /\ status = "running"
  /\ \E rnd \in RandomBytes :
       LET r == chip8_execute_instruction(chip8, keys, rnd)
       IN  /\ chip8' = r.vm
           /\ status' = r.status
           /\ fault' = r.fault
           /\ lastOp' = r.op
           /\ calls' = CallsAfter(calls, chip8, r)
  /\ UNCHANGED <<keys, rom>>

Next == LoadOpenFailed \/ Load \/ KeyDown \/ KeyUp \/ Quit \/ Step

Spec == Init /\ [][Next]_vars

\* The runs of the programs that set the delay timer and poll it.  main's
\* loop calls chip8_execute_instruction once in every iteration, so a cycle
\* that can be taken is taken.
LoadTimer ==
  /\ status = "boot"
  /\ \E image \in TimerImages : \E chunks \in Deliveries(Len(image)) :
       LET r == chip8_init(image, chunks)
       IN  /\ chip8' = r.vm
           /\ status' = r.status
           /\ fault' = r.fault
           /\ rom' = image
  /\ UNCHANGED <<keys, lastOp, calls>>

TimerNext == LoadOpenFailed \/ LoadTimer \/ KeyDown \/ KeyUp \/ Quit \/ Step

TimerSpec == Init /\ [][TimerNext]_vars /\ WF_vars(Step)

\* ============================================================== properties
\* A transition that is one instruction cycle: the run was going, and the
\* transition is neither a key event nor the host's quit.
IsStep == status = "running" /\ keys' = keys /\ fault' # "Quit"

\* The opcode at pc, -1 when pc is not a fetchable address.
OpAt == IF FetchInBounds(chip8) THEN chip8_current_opcode(chip8) ELSE -1

IsReturn(op) == op >= 0 /\ Family(op) = 0 /\ NN(op) = 238
IsCall(op) == op >= 0 /\ Family(op) = 2
IsDraw(op) == op >= 0 /\ Family(op) = 13
IsKeyWait(op) == op >= 0 /\ Family(op) = 15 /\ NN(op) = 10
IsFont(op) == op >= 0 /\ Family(op) = 15 /\ NN(op) = 41

\* C1: a return that balances a call made at address a with stack pointer s
\* (s < 16, whatever ran in between, nested calls and their returns
\* included) leaves pc = a + 2 and the stack pointer at s again.
C1_CallReturnRoundTrip ==
  [][(IsStep /\ IsReturn(OpAt) /\ calls # <<>>)
       => /\ status' = "running"
          /\ chip8'.pc = calls[Len(calls)].site + 2
          /\ chip8'.sp = calls[Len(calls)].sp
          /\ calls[Len(calls)].sp < 16]_vars

\* The 16th of 16 nested calls, made with every other stack slot in use, has
\* returned: pc is behind the call at 0x204 and 15 calls are still open.
C1_Witness ==
  /\ status = "running"
  /\ IsReturn(lastOp)
  /\ Len(calls) = 15
  /\ chip8.sp = 15
  /\ chip8.pc = 518

\* The sprite a draw at the current pc would blit: its coordinates, its
\* height, and whether all of it lies on the display and in ram.
DrawX == chip8.v[X(OpAt)]
DrawY == chip8.v[Y(OpAt)]
DrawH == N(OpAt)
SpriteInBounds ==
  /\ DrawX + 8 <= CHIP8_DISPLAY_WIDTH
  /\ DrawY + DrawH <= CHIP8_DISPLAY_HEIGHT
  /\ chip8.I + DrawH <= CHIP8_RAM_CAPACITY
SpriteNonEmpty == \E i \in 0 .. DrawH - 1 : chip8.ram[chip8.I + i] # 0
\* The display is what one draw of that sprite at those coordinates leaves
\* of an empty display.
DrawnOnceOnEmpty ==
  chip8.display =
    chip8_sprite_draw([chip8 EXCEPT !.display = EmptyDisplay], DrawX, DrawY, DrawH).vm.display

\* C2: drawing a non-empty sprite at in-bounds coordinates onto the display
\* that one draw of the same sprite at the same coordinates left of an empty
\* display turns every cell off and sets VF = 1.
C2_DrawTwiceClears ==
  [][(IsStep /\ IsDraw(OpAt) /\ SpriteInBounds /\ SpriteNonEmpty /\ DrawnOnceOnEmpty)
       => /\ chip8'.display = EmptyDisplay
          /\ chip8'.v[15] = 1]_vars

\* The opcodes the instruction table gives a meaning to.
HasSemantics(op) ==
  CASE Family(op) = 0 -> op \in {224, 238}
    [] Family(op) \in {5, 9} -> N(op) = 0
    [] Family(op) = 8 -> N(op) \in (0 .. 7) \cup {14}
    [] Family(op) = 14 -> NN(op) \in {158, 161}
    [] Family(op) = 15 -> NN(op) \in {7, 10, 21, 24, 30, 41, 51, 85, 101}
    [] OTHER -> TRUE

\* C3: a cycle that fetched an opcode with no defined semantics has ended
\* the run with the UnimplementedOpcode fault.
C3_UndefinedOpcodeFaults ==
  (lastOp >= 0 /\ ~HasSemantics(lastOp))
    => (status = "exit" /\ fault = "UnimplementedOpcode")

\* C4: a cycle at Fx0A with no key down changes nothing of the machine; with
\* a key down it puts the index of a pressed key into V[x] (5 when key 5 is
\* the only one), advances pc by 2 and changes nothing else.
C4_KeyWait ==
  [][(IsStep /\ IsKeyWait(OpAt))
       => /\ status' = "running"
          /\ IF \A i \in KeyIdx : keys[i] = 0
               THEN chip8' = chip8
               ELSE /\ chip8'.v[X(OpAt)] \in KeyIdx
                    /\ keys[chip8'.v[X(OpAt)]] # 0
                    /\ ({i \in KeyIdx : keys[i] # 0} = {5} => chip8'.v[X(OpAt)] = 5)
                    /\ chip8'.pc = chip8.pc + 2
                    /\ chip8' = [chip8 EXCEPT !.v[X(OpAt)] = chip8'.v[X(OpAt)],
                                              !.pc = chip8.pc + 2]]_vars

\* The wait at 0x200 has ended with key 5, the only key down, in V3.
C4_Witness ==
  /\ status = "running"
  /\ IsKeyWait(lastOp)
  /\ {i \in KeyIdx : keys[i] # 0} = {5}
  /\ chip8.v[3] = 5
  /\ chip8.pc = 514

\* Every aligned word of the image is an opcode the code implements: one
\* whose case neither is missing from the switch nor exits.
Implemented(op) ==
  CASE Family(op) = 0 -> NN(op) \in {224, 238}
    [] Family(op) \in {5, 11} -> FALSE
    [] Family(op) = 8 -> N(op) = 0
    [] Family(op) = 14 -> NN(op) \in {158, 161}
    [] Family(op) = 15 -> NN(op) \in {7, 10, 21, 30, 41, 51, 85, 101}
    [] OTHER -> TRUE
ValidImage(image) ==
  /\ Len(image) % 2 = 0
  /\ \A w \in 1 .. Len(image) \div 2 : Implemented(image[2 * w - 1] * 256 + image[2 * w])
\* ram holds the image at the entry point, byte for byte.
RamHoldsImage ==
  \A i \in 1 .. Len(rom) : chip8.ram[CHIP8_RAM_ENTRYPOINT + i - 1] = rom[i]

\* C5: while a program of valid opcodes, loaded at 0x200, runs, the program
\* counter satisfies 512 <= pc < 4096.
C5_PcInRange ==
  (status = "running" /\ ValidImage(rom) /\ RamHoldsImage)
    => (512 <= chip8.pc /\ chip8.pc < 4096)

\* C6: the load fails with ImageTooLarge exactly when the image is longer
\* than 3584 bytes, and an image of at most 3584 bytes that the read
\* collaborator delivers completely is loaded and the run starts.
C6_LoaderSizeLimit ==
  [][(status = "boot" /\ fault' # "OpenFailed")
       => /\ (fault' = "ImageTooLarge") <=> (Len(rom') > 3584)
          /\ fault' = "ImageTooLarge" => status' = "exit"
          /\ (Len(rom') <= 3584 /\ fault' # "ShortRead")
               => (status' = "running" /\ fault' = "none")]_vars

\* An image of exactly 3584 bytes has been loaded and the run has started.
C6_Witness ==
  /\ Len(rom) = 3584
  /\ status = "running"
  /\ lastOp = -1
  /\ chip8.pc = 512

\* The machine a load of `image` is to leave: the font table at 0, the image
\* at 0x200, every other byte of ram 0, pc = 0x200, all else zero.
Loaded(image) ==
  [ pc |-> 512,
    ram |-> [a \in Addrs |-> IF a < 80 THEN chip8_numbers[a + 1]
                             ELSE IF a >= 512 /\ a < 512 + Len(image)
                                    THEN image[a - 511] ELSE 0],
    v |-> [r \in Regs |-> 0],
    delay |-> 0,
    sound |-> 0,
    I |-> 0,
    sp |-> 0,
    stack |-> [s \in Slots |-> 0],
    display |-> [r \in Rows |-> [c \in Cols |-> 0]] ]

\* C7: after a successful load, and before the first cycle, the machine is
\* Loaded(image), in however many chunks the image was delivered.
C7_LoadedVerbatim ==
  (status = "running" /\ lastOp = -1) => chip8 = Loaded(rom)

\* C8 as claimed: a load that fails with ImageTooLarge leaves the machine as
\* it was before the call.
C8_Untouched ==
  fault = "ImageTooLarge" => chip8 = ZeroState

\* C8, amended: a load that fails with ImageTooLarge has copied no byte of
\* the image; the machine has been zeroed, pc set to 0x200 and the font
\* table written, and nothing else.
C8_NoImageByteCopied ==
  fault = "ImageTooLarge" => (status = "exit" /\ chip8 = Loaded(<<>>))

\* A load of a 3585-byte image has failed with ImageTooLarge.
C8_Witness ==
  /\ fault = "ImageTooLarge"
  /\ Len(rom) = 3585
  /\ chip8.pc = 512

\* C9: a cycle fetches ram[pc] * 256 + ram[pc + 1]; a cycle that starts with
\* pc + 1 >= 4096 fails with PcOutOfBounds and reads no byte beyond ram.
C9_FetchChecked ==
  [][IsStep
       => IF chip8.pc + 1 < 4096
            THEN lastOp' = chip8.ram[chip8.pc] * 256 + chip8.ram[chip8.pc + 1]
            ELSE status' = "exit" /\ fault' = "PcOutOfBounds"]_vars

\* The font table is in ram as the loader wrote it.
FontIntact == \A a \in 0 .. 79 : chip8.ram[a] = chip8_numbers[a + 1]

\* C10: the instruction before was Fx29 with V[x] = g, g in 0..15.  The font
\* table being intact, a 5-row draw at in-bounds coordinates (x0, y0) on an
\* empty display finds index = 5 * g, sets VF = 0, and leaves cell
\* (x0 + c, y0 + r) on exactly when bit 7 - c of font byte 5 * g + r is set.
C10_GlyphDraw ==
  [][(/\ IsStep /\ IsDraw(OpAt) /\ DrawH = 5
      /\ IsFont(lastOp) /\ chip8.v[X(lastOp)] \in 0 .. 15
      /\ FontIntact
      /\ chip8.display = EmptyDisplay
      /\ DrawX + 8 <= 64 /\ DrawY + 5 <= 32)
       => LET g == chip8.v[X(lastOp)]
          IN  /\ chip8.I = 5 * g
              /\ status' = "running"
              /\ chip8'.v[15] = 0
              /\ \A r \in Rows : \A c \in Cols :
                   (chip8'.display[r][c] # 0)
                     <=> /\ r - DrawY \in 0 .. 4
                         /\ c - DrawX \in 0 .. 7
                         /\ Bit(chip8_numbers[5 * g + (r - DrawY) + 1], 7 - (c - DrawX)) = 1]_vars

\* Glyph 0xA has been drawn at (56, 27), the far corner of the in-bounds
\* range: its top row F0 lights columns 56..59 of row 27.
C10_Witness ==
  /\ status = "running"
  /\ IsDraw(lastOp)
  /\ chip8.pc = 522
  /\ chip8.v[0] = 56 /\ chip8.v[1] = 27 /\ chip8.v[2] = 10
  /\ chip8.v[15] = 0
  /\ chip8.display[27][56] # 0 /\ chip8.display[27][60] = 0
  /\ chip8.display[31][59] # 0

\* Some set bit of the sprite a draw at the current pc would blit targets a
\* cell that is on.
SpriteHitsLitCell ==
  \E i \in 0 .. DrawH - 1 : \E j \in 0 .. 7 :
    /\ Bit(chip8.ram[chip8.I + i], 7 - j) = 1
    /\ chip8.display[DrawY + i][DrawX + j] # 0

\* C11: after an in-bounds draw VF is 1 when some set sprite bit, in any row
\* and column, targeted a cell that was on before the draw, and 0 otherwise,
\* whatever VF held before.
C11_CollisionFlag ==
  [][(IsStep /\ IsDraw(OpAt) /\ SpriteInBounds)
       => /\ status' = "running"
          /\ chip8'.v[15] = IF SpriteHitsLitCell THEN 1 ELSE 0]_vars

\* Glyph 0 has been drawn at (8, 0) over unlit cells, after the draw at
\* (2, 0) had set VF = 1: VF is 0 and cells of all three draws are on.
C11_Witness ==
  /\ status = "running"
  /\ IsDraw(lastOp)
  /\ chip8.pc = 522
  /\ chip8.v[0] = 8
  /\ chip8.v[15] = 0
  /\ chip8.display[0][0] # 0 /\ chip8.display[0][5] # 0 /\ chip8.display[0][8] # 0
  /\ chip8.display[1][1] = 0

IsAdd(op) == op >= 0 /\ Family(op) = 7

\* C12: 7xnn sets V[x] to (V[x] + nn) mod 256, advances pc by 2 and changes
\* nothing else: for x # F, VF is as it was.  The same holds of 7xnn for
\* every x with V[x] and nn drawn from 0, 1, 127, 128 and 255, were it the
\* instruction at pc.
C12_AddWraps ==
  [][(IsStep /\ IsAdd(OpAt))
       => /\ status' = "running"
          /\ chip8' = [chip8 EXCEPT !.v[X(OpAt)] = (chip8.v[X(OpAt)] + NN(OpAt)) % 256,
                                    !.pc = chip8.pc + 2]
          /\ X(OpAt) # 15 => chip8'.v[15] = chip8.v[15]
          /\ \A x \in Regs : \A vx, nn \in {0, 1, 127, 128, 255} :
               LET c == [chip8 EXCEPT !.v[x] = vx]
                   r == ExecAdd(c, Op(7, x, nn \div 16, nn % 16))
               IN  /\ r.status = "running"
                   /\ r.vm = [c EXCEPT !.v[x] = (vx + nn) % 256, !.pc = c.pc + 2]]_vars

\* 7301 has run with V3 = 0xFF: V3 is 0 and VF is still 0.
C12_Witness ==
  /\ status = "running"
  /\ lastOp = Op(7, 3, 0, 1)
  /\ chip8.v[3] = 0
  /\ chip8.v[15] = 0
  /\ chip8.pc = 516

IsStore(op) == op >= 0 /\ Family(op) = 15 /\ NN(op) = 85
IsFill(op) == op >= 0 /\ Family(op) = 15 /\ NN(op) = 101
\* The bytes index .. index + x an Fx55 or Fx65 at pc works on are in ram.
BlockInRam == chip8.I + X(OpAt) < CHIP8_RAM_CAPACITY

\* C13: with memory[I] .. memory[I + x] in ram, Fx55 writes V[0] .. V[x]
\* there and leaves the registers and the rest of memory as they were; Fx65
\* loads these bytes into V[0] .. V[x] and leaves memory and V[x+1] .. V[F]
\* as they were; each adds x + 1 to index and 2 to pc.  An Fx65 with the
\* same x, run after the Fx55 with index put back and the registers zeroed,
\* gives V[0] .. V[x] the values they had before the Fx55.
C13_StoreFill ==
  [][/\ (IsStep /\ IsStore(OpAt) /\ BlockInRam)
          => /\ status' = "running"
             /\ chip8' = [chip8 EXCEPT
                            !.ram = [a \in Addrs |->
                                       IF a >= chip8.I /\ a <= chip8.I + X(OpAt)
                                         THEN chip8.v[a - chip8.I] ELSE chip8.ram[a]],
                            !.I = chip8.I + X(OpAt) + 1,
                            !.pc = chip8.pc + 2]
             /\ LET back == ExecFill([chip8' EXCEPT !.I = chip8.I,
                                                    !.v = [r \in Regs |-> 0]],
                                     Op(15, X(OpAt), 6, 5))
                IN  /\ back.status = "running"
                    /\ \A i \in 0 .. X(OpAt) : back.vm.v[i] = chip8.v[i]
     /\ (IsStep /\ IsFill(OpAt) /\ BlockInRam)
          => /\ status' = "running"
             /\ chip8' = [chip8 EXCEPT
                            !.v = [r \in Regs |-> IF r <= X(OpAt) THEN chip8.ram[chip8.I + r]
                                                  ELSE chip8.v[r]],
                            !.I = chip8.I + X(OpAt) + 1,
                            !.pc = chip8.pc + 2]]_vars

\* F165 has loaded back the 0x11 and 0x22 that F155 stored at 0x300, into
\* registers that had been zeroed in between; index is 0x302.
C13_Witness ==
  /\ status = "running"
  /\ IsFill(lastOp)
  /\ chip8.v[0] = 17 /\ chip8.v[1] = 34 /\ chip8.v[2] = 0
  /\ chip8.ram[768] = 17 /\ chip8.ram[769] = 34
  /\ chip8.I = 770
  /\ chip8.pc = 528

IsSkipRegEq(op) == op >= 0 /\ Family(op) = 5 /\ N(op) = 0

\* C14: 5xy0 advances pc by 4 when V[x] = V[y] and by 2 otherwise, changes
\* nothing else, and the run goes on.
C14_SkipRegEq ==
  [][(IsStep /\ IsSkipRegEq(OpAt))
       => /\ status' = "running"
          /\ chip8' = [chip8 EXCEPT
                         !.pc = chip8.pc + (IF chip8.v[X(OpAt)] = chip8.v[Y(OpAt)]
                                              THEN 4 ELSE 2)]]_vars

\* C15: the stack pointer is in [0, 16) and no call or return has read or
\* written the return-address stack outside its 16 entries.
C15_StackInBounds ==
  /\ chip8.sp \in 0 .. CHIP8_STACK_CAPACITY - 1
  /\ fault \notin {"StackReadOutOfBounds", "StackWriteOutOfBounds"}

\* C16: no draw, whatever V[x], V[y] and n, has read or written a
\* framebuffer cell outside columns [0, 64) and rows [0, 32).
C16_DrawInGrid ==
  fault # "DisplayOutOfBounds"

\* C17: no Fx33, Fx55, Fx65 or Dxyn has read or written memory at
\* index + i outside [0, 4096), wherever Fx1E, Fx55 and Fx65 have taken
\* index.
C17_IndexInRam ==
  fault \notin {"RamReadOutOfBounds", "RamWriteOutOfBounds"}

\* C18 as claimed: at the start of every cycle pc is even.
C18_PcEven ==
  status = "running" => chip8.pc % 2 = 0

\* pc and the return addresses on the stack are even.
EvenSoFar ==
  /\ chip8.pc % 2 = 0
  /\ \A i \in Slots : i < chip8.sp => chip8.stack[i] % 2 = 0
\* A jump or call whose target nnn is odd.
OddTarget(op) == op >= 0 /\ Family(op) \in {1, 2} /\ NNN(op) % 2 = 1

\* C18, amended: a load leaves pc even; a cycle that starts with pc and the
\* stacked return addresses even, and whose instruction is not a jump or
\* call to an odd address, leaves them even; and a jump or call to an odd
\* address leaves pc odd.
C18_ParityKept ==
  [][/\ (status = "boot" /\ status' = "running") => EvenSoFar'
     /\ (IsStep /\ status' # "undefined" /\ EvenSoFar /\ ~OddTarget(OpAt)) => EvenSoFar'
     /\ (IsStep /\ status' = "running" /\ OddTarget(OpAt)) => chip8'.pc % 2 = 1]_vars

\* A return has taken pc to an even address behind a call, with three
\* calls still open, all made from even addresses.
C18_Witness ==
  /\ status = "running"
  /\ IsReturn(lastOp)
  /\ Len(calls) = 3
  /\ chip8.sp = 3
  /\ chip8.pc = 518
  /\ EvenSoFar

IsSetDelay(op) == op >= 0 /\ Family(op) = 15 /\ NN(op) = 21

\* C19: when the delay timer is above 0 and the last instruction was not an
\* Fx15, then, the frame loop running on, the timer gets to 0, unless the
\* run ends or another Fx15 is executed first.
C19_DelayRunsOut ==
  (status = "running" /\ chip8.delay > 0 /\ ~IsSetDelay(lastOp))
    ~> (chip8.delay = 0 \/ status # "running" \/ IsSetDelay(lastOp))

\* The transitions that the key-down and the key-up event of host key sym
\* make, host key sym being the one labelled with keypad digit sym.
HostKeyDown(sym) ==
  /\ status = "running"
  /\ keys' = [keys EXCEPT ![KeyOfSym(sym)] = 1]
  /\ UNCHANGED <<chip8, status, fault, rom, lastOp, calls>>
HostKeyUp(sym) ==
  /\ status = "running"
  /\ keys' = [keys EXCEPT ![KeyOfSym(sym)] = 0]
  /\ UNCHANGED <<chip8, status, fault, rom, lastOp, calls>>

\* C20: for each keypad index k of the host keys modelled (5, B, D), the
\* key-down event of host key k sets keys[k] = 1, its key-up event sets
\* keys[k] = 0, and neither changes any other entry.
C20_KeysFollowHostKeys ==
  [][\A k \in HostKeys :
       /\ HostKeyDown(k) => keys' = [keys EXCEPT ![k] = 1]
       /\ HostKeyUp(k) => keys' = [keys EXCEPT ![k] = 0]]_vars

====
